---------------------------- MODULE Spec2Model ----------------------------
(***************************************************************************)
(* Model of run/scrape_deps_maintainers.py: the Debian "Packages" index    *)
(* reader (parse_packages_file), the record builder (parse_package_data)   *)
(* and the batch command (parse).                                          *)
(*                                                                         *)
(* A Python str is a sequence of one-character strings; a Python dict is   *)
(* the sequence of its [k, v] entries in insertion order.                  *)
(***************************************************************************)
EXTENDS Integers, Sequences, FiniteSets, TLC

VARIABLES
    pc,               \* position of the parse command
    files_left,       \* number of packages files still to be iterated
    head,             \* the --head option (0 stands for "not given")
    line,             \* the raw line the reader's loop read last
    current_package,  \* parse_packages_file: the stanza being accumulated
    packages,         \* parse_packages_file: name -> record mapping
    all_packages,     \* parse: the list dumped to package.meta.json.gz
    total_packages,   \* parse: counter
    nread,            \* lines read from the current file
    emitted,          \* stanzas holding "Package" finalized in the current file
    nfile,            \* ordinal of the file being read (1 = first)
    since_blank       \* raw lines read from the current file since its last blank line

vars == <<pc, files_left, head, line, current_package, packages, all_packages,
          total_packages, nread, emitted, nfile, since_blank>>

-----------------------------------------------------------------------------
(* Bounds of the model *)

MaxLines == 5        \* lines read from the file when there is one file
MaxLinesEach == 3    \* lines read from each file when there are several
MaxFiles == 2
MaxHead == 2
MaxTok == 4
MaxClauses == 3

-----------------------------------------------------------------------------
(* Python str operations *)

Whitespace == {" ", "\t", "\n"}

RECURSIVE lstrip(_, _)
lstrip(s, chars) ==
    IF s # <<>> /\ Head(s) \in chars THEN lstrip(Tail(s), chars) ELSE s

RECURSIVE rstrip(_, _)
rstrip(s, chars) ==
    IF s # <<>> /\ s[Len(s)] \in chars
    THEN rstrip(SubSeq(s, 1, Len(s) - 1), chars)
    ELSE s

strip_chars(s, chars) == rstrip(lstrip(s, chars), chars)

strip(s) == strip_chars(s, Whitespace)

startswith(s, prefix) ==
    Len(s) >= Len(prefix) /\ SubSeq(s, 1, Len(prefix)) = prefix

contains(s, c) == \E i \in 1..Len(s) : s[i] = c

find(s, c) == CHOOSE i \in 1..Len(s) : s[i] = c /\ \A j \in 1..(i - 1) : s[j] # c

RECURSIVE split(_, _)
split(s, c) ==
    IF ~contains(s, c) THEN <<s>>
    ELSE LET i == find(s, c)
         IN  <<SubSeq(s, 1, i - 1)>> \o split(SubSeq(s, i + 1, Len(s)), c)

split_once(s, c) ==
    IF ~contains(s, c) THEN <<s>>
    ELSE LET i == find(s, c)
         IN  <<SubSeq(s, 1, i - 1), SubSeq(s, i + 1, Len(s))>>

UpperCase == <<"A", "B", "C", "D", "E", "F", "G", "H", "I", "J", "K", "L", "M",
               "N", "O", "P", "Q", "R", "S", "T", "U", "V", "W", "X", "Y", "Z">>

LowerCase == <<"a", "b", "c", "d", "e", "f", "g", "h", "i", "j", "k", "l", "m",
               "n", "o", "p", "q", "r", "s", "t", "u", "v", "w", "x", "y", "z">>

lower_char(c) ==
    IF \E i \in 1..26 : UpperCase[i] = c
    THEN LowerCase[CHOOSE i \in 1..26 : UpperCase[i] = c]
    ELSE c

lower(s) == [i \in 1..Len(s) |-> lower_char(s[i])]

-----------------------------------------------------------------------------
(* Python dict operations (insertion-ordered) *)

dict_has(d, k) == \E i \in 1..Len(d) : d[i].k = k

dict_index(d, k) == CHOOSE i \in 1..Len(d) : d[i].k = k

dict_get(d, k) == d[dict_index(d, k)].v

dict_get_default(d, k, default) == IF dict_has(d, k) THEN dict_get(d, k) ELSE default

dict_set(d, k, v) ==
    IF dict_has(d, k)
    THEN [d EXCEPT ![dict_index(d, k)] = [k |-> k, v |-> v]]
    ELSE Append(d, [k |-> k, v |-> v])

dict_keys(d) == [i \in 1..Len(d) |-> d[i].k]

dict_values(d) == [i \in 1..Len(d) |-> d[i].v]

-----------------------------------------------------------------------------
(* Field names *)

Package == <<"P", "a", "c", "k", "a", "g", "e">>
Version == <<"V", "e", "r", "s", "i", "o", "n">>
Description == <<"D", "e", "s", "c", "r", "i", "p", "t", "i", "o", "n">>
Maintainer == <<"M", "a", "i", "n", "t", "a", "i", "n", "e", "r">>
Depends == <<"D", "e", "p", "e", "n", "d", "s">>
PreDepends == <<"P", "r", "e", "-", "D", "e", "p", "e", "n", "d", "s">>
Recommends == <<"R", "e", "c", "o", "m", "m", "e", "n", "d", "s">>
Suggests == <<"S", "u", "g", "g", "e", "s", "t", "s">>
Conflicts == <<"C", "o", "n", "f", "l", "i", "c", "t", "s">>
Breaks == <<"B", "r", "e", "a", "k", "s">>

dep_fields == <<Depends, PreDepends, Recommends, Suggests, Conflicts, Breaks>>

aliases_suffix == <<"_", "a", "l", "i", "a", "s", "e", "s">>

-----------------------------------------------------------------------------
(* parse_package_data: the record built from one stanza *)

keep_clause_nonempty(dep) == dep # <<>>

\* the test of line 95 on a trimmed clause
keep_clause(dep) == dep # <<>> /\ ~startswith(dep, <<"$", "{">>)

\* lines 97-105: the item of a clause's first alternative
make_item(main_dep) ==
    LET name_version == split(main_dep, "(")
        name == strip(name_version[1])
    IN  IF Len(name_version) > 1
        THEN [name |-> name, version |-> strip_chars(name_version[2], {")"})]
        ELSE [name |-> name]

make_aliases_untrimmed(parts, name) ==
    [i \in 1..(Len(parts) - 1) |-> [source |-> name, target |-> parts[i + 1]]]

\* lines 107-109: one alias per alternative after the first
make_aliases(parts, name) ==
    [i \in 1..(Len(parts) - 1) |-> [source |-> name, target |-> strip(parts[i + 1])]]

\* lines 91-109: the loop over the comma-separated clauses of one field
RECURSIVE decompose(_)
decompose(clauses) ==
    IF clauses = <<>> THEN [deps |-> <<>>, aliases |-> <<>>]
    ELSE LET dep == strip(Head(clauses))
             rest == decompose(Tail(clauses))
         IN  IF keep_clause(dep)
             THEN LET parts == split(dep, "|")
                      item == make_item(strip(parts[1]))
                  IN  [deps |-> <<item>> \o rest.deps,
                       aliases |-> make_aliases(parts, item.name) \o rest.aliases]
             ELSE rest

store_field_aliases_always(dependencies, field, r) ==
    dict_set(dict_set(dependencies, lower(field), r.deps),
             lower(field) \o aliases_suffix, r.aliases)

\* lines 110-112: what one present field stores into dependencies
store_field(dependencies, field, r) ==
    LET d == dict_set(dependencies, lower(field), r.deps)
    IN  IF r.aliases # <<>>
        THEN dict_set(d, lower(field) \o aliases_suffix, r.aliases)
        ELSE d

\* lines 89-112: dependencies after the first n entries of dep_fields
RECURSIVE dependencies_after(_, _)
dependencies_after(pkg_data, n) ==
    IF n = 0 THEN <<>>
    ELSE LET prev == dependencies_after(pkg_data, n - 1)
             field == dep_fields[n]
         IN  IF dict_has(pkg_data, field)
             THEN store_field(prev, field,
                              decompose(split(dict_get(pkg_data, field), ",")))
             ELSE prev

\* lines 114-122
maintainer_name(maintainer_info) ==
    IF contains(maintainer_info, "<")
    THEN strip(split(maintainer_info, "<")[1])
    ELSE maintainer_info

maintainer_email(maintainer_info) ==
    IF contains(maintainer_info, "<")
    THEN strip_chars(split(maintainer_info, "<")[2], {">"})
    ELSE <<>>

parse_package_data(pkg_data) ==
    LET maintainer_info == dict_get_default(pkg_data, Maintainer, <<>>)
    IN  [name |-> dict_get(pkg_data, Package),
         version |-> dict_get_default(pkg_data, Version, <<>>),
         dependencies |-> dependencies_after(pkg_data, Len(dep_fields)),
         description |-> split(dict_get_default(pkg_data, Description, <<>>), "\n")[1],
         maintainer |-> [name |-> maintainer_name(maintainer_info),
                         email |-> maintainer_email(maintainer_info)]]

-----------------------------------------------------------------------------
(* Input lines: what iterating the text file can yield. Every line carries *)
(* its line terminator.                                                    *)

foo == <<"f", "o", "o">>
bar == <<"b", "a", "r">>

LineTexts ==
    { <<>>,                                          \* blank line
      Package \o <<":", " ", "p">>,
      Package \o <<":", " ", "q">>,
      Package \o <<":">>,                            \* empty package name
      Depends \o <<":", " ">> \o foo \o <<",">>,
      <<" ">> \o bar,                                \* continuation line
      <<" ">> \o Package \o <<":", " ", "q">>,       \* continuation line with ":"
      <<"g", "a", "r", "b", "a", "g", "e">>,         \* no ":" and no indent
      Depends \o <<":", " ", ",", "|", " ", "(">> }   \* stray comma, pipe, parenthesis

Lines == { l \o <<"\n">> : l \in LineTexts }

-----------------------------------------------------------------------------
(* parse_packages_file: one iteration of "for line in f" *)

stanza_complete_nonempty(cp) == cp # <<>>

\* line 59
stanza_complete(cp) == cp # <<>> /\ dict_has(cp, Package)

cap_reached_off_by_one(pkgs, h) == h # 0 /\ Len(pkgs) > h

\* line 62
cap_reached(pkgs, h) == h # 0 /\ Len(pkgs) >= h

\* lines 67-72: the accumulator after a non-blank (stripped) line
accumulate(cp, stripped) ==
    IF contains(stripped, ":") /\ ~startswith(stripped, <<" ">>)
    THEN LET kv == split_once(stripped, ":")
         IN  dict_set(cp, strip(kv[1]), strip(kv[2]))
    ELSE IF startswith(stripped, <<" ">>) /\ cp # <<>>
    THEN LET last_key == dict_keys(cp)[Len(cp)]
         IN  dict_set(cp, last_key, dict_get(cp, last_key) \o <<" ">> \o strip(stripped))
    ELSE cp

store_record_first_wins(pkgs, pkg_name, record) ==
    IF dict_has(pkgs, pkg_name) THEN pkgs ELSE dict_set(pkgs, pkg_name, record)

\* line 61: packages[pkg_name] = record
store_record(pkgs, pkg_name, record) == dict_set(pkgs, pkg_name, record)

\* the exceptions the loop body can raise on a line: KeyError at lines 60 and
\* 125 (no "Package" key), ValueError at line 68 (the split gives no pair),
\* IndexError at line 71 (no last key)
step_raises(cp, stripped) ==
    IF stripped = <<>>
    THEN stanza_complete(cp) /\ ~dict_has(cp, Package)
    ELSE IF contains(stripped, ":") /\ ~startswith(stripped, <<" ">>)
    THEN Len(split_once(stripped, ":")) # 2
    ELSE IF startswith(stripped, <<" ">>) /\ cp # <<>>
    THEN Len(dict_keys(cp)) = 0
    ELSE FALSE

next_accumulator_keeps_dropped(cp, stripped) ==
    IF stripped = <<>>
    THEN IF stanza_complete(cp) THEN <<>> ELSE cp
    ELSE accumulate(cp, stripped)

\* lines 64 and 67-72: the accumulator the next iteration starts from
next_accumulator(cp, stripped) ==
    IF stripped = <<>> THEN <<>> ELSE accumulate(cp, stripped)

Init ==
    /\ pc = "start"
    /\ files_left \in 0..MaxFiles
    /\ head \in 0..MaxHead
    /\ line = <<>>
    /\ current_package = <<>>
    /\ packages = <<>>
    /\ all_packages = <<>>
    /\ total_packages = 0
    /\ nread = 0
    /\ emitted = 0
    /\ nfile = 0
    /\ since_blank = <<>>

\* lines 170-174: no cache file, nothing is dumped
NoFiles ==
    /\ pc = "start"
    /\ files_left = 0
    /\ pc' = "nofiles"
    /\ UNCHANGED <<files_left, head, line, current_package, packages, all_packages,
                   total_packages, nread, emitted, nfile, since_blank>>

\* lines 183-184, 51-54: the next file is handed to parse_packages_file.
\* (Line 180 runs parse_packages_file over every file once more, only to size
\* the progress bar; it changes nothing the command keeps.)
OpenFile ==
    /\ pc \in {"start", "next"}
    /\ files_left > 0
    /\ pc' = "read"
    /\ packages' = <<>>
    /\ current_package' = <<>>
    /\ nread' = 0
    /\ emitted' = 0
    /\ nfile' = nfile + 1
    /\ since_blank' = <<>>
    /\ UNCHANGED <<files_left, head, line, all_packages, total_packages>>

\* the files found at line 170: those already opened and those still to open
files_total == nfile + files_left - 1

\* lines 55-72: the loop body on the line raw
ReadLine(raw) ==
    /\ pc = "read"
    /\ nread < (IF files_total = 1 THEN MaxLines ELSE MaxLinesEach)
    /\ nread' = nread + 1
    /\ line' = raw
    /\ LET stripped == strip(raw)
       IN  /\ since_blank' = IF stripped = <<>> THEN <<>> ELSE Append(since_blank, raw)
           /\ IF step_raises(current_package, stripped)
              THEN /\ pc' = "error"
                   /\ UNCHANGED <<current_package, packages, emitted>>
              ELSE IF stripped = <<>> /\ stanza_complete(current_package)
              THEN LET pkg_name == dict_get(current_package, Package)
                       pkgs == store_record(packages, pkg_name,
                                            parse_package_data(current_package))
                   IN  /\ packages' = pkgs
                       /\ emitted' = emitted + 1
                       /\ IF cap_reached(pkgs, head)
                          THEN pc' = "ret" /\ UNCHANGED current_package
                          ELSE /\ pc' = "read"
                               /\ current_package' = next_accumulator(current_package, stripped)
              ELSE /\ current_package' = next_accumulator(current_package, stripped)
                   /\ UNCHANGED <<pc, packages, emitted>>
    /\ UNCHANGED <<files_left, head, all_packages, total_packages, nfile>>

\* line 55 exhausted: the file has no more lines, line 74 returns packages
EndOfFile ==
    /\ pc = "read"
    /\ pc' = "ret"
    /\ UNCHANGED <<files_left, head, line, current_package, packages, all_packages,
                   total_packages, nread, emitted, nfile, since_blank>>

\* lines 185-190: the returned records are appended; after the last file the
\* list is dumped.  The finished call's locals are gone.
Collect ==
    /\ pc = "ret"
    /\ all_packages' = all_packages \o dict_values(packages)
    /\ total_packages' = total_packages + Len(packages)
    /\ files_left' = files_left - 1
    /\ pc' = IF files_left = 1 THEN "done" ELSE "next"
    /\ line' = <<>>
    /\ current_package' = <<>>
    /\ packages' = <<>>
    /\ since_blank' = <<>>
    /\ nread' = 0
    /\ emitted' = 0
    /\ UNCHANGED <<head, nfile>>

Next ==
    \/ NoFiles
    \/ OpenFile
    \/ \E raw \in Lines : ReadLine(raw)
    \/ EndOfFile
    \/ Collect

Spec == Init /\ [][Next]_vars

-----------------------------------------------------------------------------
(* The reader on one file: parse_packages_file called once *)

InitReader == Init /\ files_left = 1

NextReader ==
    \/ OpenFile
    \/ \E raw \in Lines : ReadLine(raw)
    \/ EndOfFile
    \/ Collect

SpecReader == InitReader /\ [][NextReader]_vars

-----------------------------------------------------------------------------
(* parse_package_data as a function of one stanza.  The stanzas are those  *)
(* the reader can accumulate: values are trimmed and hold no line break.   *)

Tokens ==
    { <<"a">>, <<"b">>, <<" ">>, <<",">>, <<"|">>, <<"(">>, <<")">>,
      <<"$", "{">>, <<">", "=">> }

RECURSIVE TokenStrings(_)
TokenStrings(n) ==
    IF n = 0 THEN {<<>>}
    ELSE LET shorter == TokenStrings(n - 1)
         IN  shorter \cup {t \o s : t \in Tokens, s \in shorter}

ConstraintGe == <<"(", ">", "=", " ", "1", ".", "0", ")">>

Clauses ==
    { <<>>,
      <<"a">>,
      <<" ", "b", " ">>,
      <<"a", " ", "|", " ", "b">>,
      <<"a", " ">> \o ConstraintGe \o <<" ", "|", " ", "b", " ", "|", " ", "c">>,
      <<"$", "{", "x", "}">>,
      <<"$", "{", "x", "}", " ", "|", " ", "a">>,
      <<"a", " ", "|", " ", "$", "{", "x", "}">>,
      <<"|", " ", "b">>,
      ConstraintGe,
      <<"a", " ", "(", "<", "<", " ", "2">>,
      <<"a", " ", "(", ")">>,
      <<"b", " ", "(", "=", " ", "1", ")", " ", "x">> }

RECURSIVE ClauseLists(_)
ClauseLists(n) ==
    IF n = 1 THEN Clauses
    ELSE LET shorter == ClauseLists(n - 1)
         IN  shorter \cup {c \o <<",">> \o s : c \in Clauses, s \in shorter}

FieldExamples ==
    { <<"$", "{", "s", "h", "l", "i", "b", "s", ":", "D", "e", "p", "e", "n", "d",
        "s", "}">>,
      foo \o <<",", " ">> \o bar }

FieldValues(ntok, nclauses) ==
    { strip(v) : v \in TokenStrings(ntok) \cup ClauseLists(nclauses) \cup FieldExamples }

\* a value each for fields given together: only placeholders, an alternation, a name
FieldSamples == { <<"$", "{", "x", "}">>, <<"a", " ", "|", " ", "b">>, <<"a">> }

RECURSIVE RelationStanzas(_)
RelationStanzas(n) ==
    IF n = 0 THEN {<<[k |-> Package, v |-> <<"p">>]>>}
    ELSE LET fewer == RelationStanzas(n - 1)
         IN  fewer \cup {Append(st, [k |-> dep_fields[n], v |-> v]) :
                           st \in fewer, v \in FieldSamples}

MaintainerTokens == { <<"J">>, <<" ">>, <<"<">>, <<">">>, <<"e">> }

RECURSIVE MaintainerStrings(_)
MaintainerStrings(n) ==
    IF n = 0 THEN {<<>>}
    ELSE LET shorter == MaintainerStrings(n - 1)
         IN  shorter \cup {t \o s : t \in MaintainerTokens, s \in shorter}

JaneDoe == <<"J", "a", "n", "e", " ", "D", "o", "e">>
JaneEmail == <<"j", "a", "n", "e", "@", "x", ".", "o", "r", "g">>

MaintainerExamples ==
    { JaneDoe \o <<" ", "<">> \o JaneEmail \o <<">">>,
      JaneDoe,
      JaneDoe \o <<" ", "<">> \o JaneEmail \o <<">", " ", "(", "t", "e", "a", "m", ")">> }

MaintainerValues(ntok) ==
    { strip(v) : v \in MaintainerStrings(ntok) \cup MaintainerExamples }

Stanzas(ntok, nclauses) ==
    {<<[k |-> Package, v |-> <<"p">>], [k |-> Depends, v |-> v]>> :
         v \in FieldValues(ntok, nclauses)}
        \cup RelationStanzas(Len(dep_fields))
        \cup {<<[k |-> Package, v |-> <<"p">>], [k |-> Maintainer, v |-> v]>> :
                 v \in MaintainerValues(ntok)}

InitBuild ==
    /\ pc = "build"
    /\ current_package \in Stanzas(MaxTok, MaxClauses)
    /\ files_left = 0
    /\ head = 0
    /\ line = <<>>
    /\ packages = <<>>
    /\ all_packages = <<>>
    /\ total_packages = 0
    /\ nread = 0
    /\ emitted = 0
    /\ nfile = 0
    /\ since_blank = <<>>

\* lines 60-61 on the stanza current_package
Build ==
    /\ pc = "build"
    /\ pc' = "built"
    /\ packages' = dict_set(packages, dict_get(current_package, Package),
                            parse_package_data(current_package))
    /\ UNCHANGED <<files_left, head, line, current_package, all_packages,
                   total_packages, nread, emitted, nfile, since_blank>>

NextBuild == Build

SpecBuild == InitBuild /\ [][NextBuild]_vars

-----------------------------------------------------------------------------
(* Claims about the reader and the batch command *)

\* the loop body of parse_packages_file has just run on the line now in `line`
ReadStep == pc = "read" /\ nread' = nread + 1

IsBlank(raw) == \A i \in 1..Len(raw) : raw[i] \in Whitespace

\* cp with " " and the trimmed line appended to its most recently inserted value
Folded(cp, raw) ==
    [cp EXCEPT ![Len(cp)].v = cp[Len(cp)].v \o <<" ">> \o strip(raw)]

\* C1: a non-blank line that begins with whitespace, read while the
\* accumulator is non-empty, appends one space and the trimmed line to the
\* value of the most recently inserted key.
Cx_C1 ==
    [][(/\ ReadStep
        /\ line'[1] \in Whitespace
        /\ ~IsBlank(line')
        /\ current_package # <<>>)
       => current_package' = Folded(current_package, line')]_vars

\* C2: when the stream ends while the accumulator is non-empty and holds
\* "Package", that stanza's record is in the returned mapping.
Cx_C2 ==
    (pc = "ret" /\ current_package # <<>> /\ dict_has(current_package, Package))
    => /\ dict_has(packages, dict_get(current_package, Package))
       /\ dict_get(packages, dict_get(current_package, Package))
              = parse_package_data(current_package)

\* C3: the output of parse holds exactly one record per package name (the one
\* of the earliest stream); a later stream neither overwrites nor duplicates it.
Cx_C3 ==
    pc = "done"
    => \A i, j \in 1..Len(all_packages) :
           all_packages[i].name = all_packages[j].name => i = j

\* C4: with cap N >= 1 the output of parse over all streams holds at most N
\* records.
Cx_C4 == (pc = "done" /\ head >= 1) => Len(all_packages) <= head

\* C5 as stated: with cap N, the reader has terminated once N stanzas holding
\* "Package" have been emitted.
Cx_C5 ==
    (pc = "read" /\ head >= 1 /\ \A i \in 1..Len(packages) : packages[i].k # <<>>)
    => emitted < head

\* C5: with cap N >= 1 the reader terminates as soon as the mapping holds N
\* distinct package names, on the blank line that finalized the N-th of them,
\* and reads no line after it; the mapping never holds more than N records.
Th_C5 ==
    (head >= 1 /\ pc \in {"read", "ret"})
    => /\ Len(packages) <= head
       /\ pc = "read" => Len(packages) < head
       /\ Len(packages) = head => (pc = "ret" /\ IsBlank(line) /\ emitted >= head)

Wit_C5 ==
    /\ pc = "ret"
    /\ head = 2
    /\ Len(packages) = 2
    /\ nread = 4
    /\ emitted = 2

\* C6: every record of the mapping has a non-empty name and is stored under it.
Cx_C6 ==
    \A i \in 1..Len(packages) :
        /\ packages[i].k # <<>>
        /\ packages[i].v.name = packages[i].k

\* the accumulator built from nothing but the given raw lines
RECURSIVE FoldLines(_)
FoldLines(raws) ==
    IF raws = <<>> THEN <<>>
    ELSE accumulate(FoldLines(SubSeq(raws, 1, Len(raws) - 1)), strip(raws[Len(raws)]))

HoldsPackage(cp) == \E i \in 1..Len(cp) : cp[i].k = Package

-----------------------------------------------------------------------------
(* Claims about parse_package_data *)

LowerKinds ==
    << <<"d", "e", "p", "e", "n", "d", "s">>,
       <<"p", "r", "e", "-", "d", "e", "p", "e", "n", "d", "s">>,
       <<"r", "e", "c", "o", "m", "m", "e", "n", "d", "s">>,
       <<"s", "u", "g", "g", "e", "s", "t", "s">>,
       <<"c", "o", "n", "f", "l", "i", "c", "t", "s">>,
       <<"b", "r", "e", "a", "k", "s">> >>

AliasKeys == [n \in 1..6 |-> LowerKinds[n] \o <<"_", "a", "l", "i", "a", "s", "e", "s">>]

\* the record built from the stanza, and its dependencies
BuiltRecord == packages[1].v
BuiltDeps == BuiltRecord.dependencies

FieldPresent(n) == \E i \in 1..Len(current_package) : current_package[i].k = dep_fields[n]
FieldValue(n) ==
    current_package[CHOOSE i \in 1..Len(current_package) :
                        current_package[i].k = dep_fields[n]].v

HasKey(d, key) == \E i \in 1..Len(d) : d[i].k = key
ValueAt(d, key) == d[CHOOSE i \in 1..Len(d) : d[i].k = key].v

\* the trimmed comma-separated clauses of a field value
TrimmedClauses(value) ==
    LET cs == split(value, ",") IN [i \in 1..Len(cs) |-> strip(cs[i])]

\* a clause that is neither empty nor a placeholder
Survives(c) == Len(c) > 0 /\ ~(Len(c) >= 2 /\ c[1] = "$" /\ c[2] = "{")

Surviving(value) == SelectSeq(TrimmedClauses(value), Survives)

Pipes(c) == Cardinality({i \in 1..Len(c) : c[i] = "|"})

RECURSIVE PipesBefore(_, _)
PipesBefore(cs, j) == IF j <= 1 THEN 0 ELSE PipesBefore(cs, j - 1) + Pipes(cs[j - 1])

\* the text of an alternative up to its first "("
BeforeParen(a) ==
    IF \E i \in 1..Len(a) : a[i] = "("
    THEN SubSeq(a, 1, (CHOOSE i \in 1..Len(a) :
                           a[i] = "(" /\ \A j \in 1..(i - 1) : a[j] # "(") - 1)
    ELSE a

ItemsOf(n) == ValueAt(BuiltDeps, LowerKinds[n])
AliasesOf(n) == IF HasKey(BuiltDeps, AliasKeys[n]) THEN ValueAt(BuiltDeps, AliasKeys[n]) ELSE <<>>

Th_C9 ==
    pc = "built"
    => \A n \in 1..6 :
         FieldPresent(n)
         => LET cs == Surviving(FieldValue(n))
                items == ItemsOf(n)
                aliases == AliasesOf(n)
            IN  /\ Len(items) = Len(cs)
                /\ Len(aliases) = PipesBefore(cs, Len(cs) + 1)
                /\ \A j \in 1..Len(cs) :
                     LET alts == split(cs[j], "|")
                     IN  /\ Len(alts) = Pipes(cs[j]) + 1
                         /\ items[j].name = strip(BeforeParen(alts[1]))
                         /\ \A m \in 2..Len(alts) :
                              aliases[PipesBefore(cs, j) + m - 1]
                                  = [source |-> items[j].name, target |-> strip(alts[m])]

\* "a (>= 1.0) | b | c" followed by two more clauses
Wit_C9 ==
    /\ pc = "built"
    /\ FieldPresent(1)
    /\ Len(Surviving(FieldValue(1))) = 3
    /\ Surviving(FieldValue(1))[1]
         = <<"a", " ">> \o ConstraintGe \o <<" ", "|", " ", "b", " ", "|", " ", "c">>
    /\ ItemsOf(1)[1] = [name |-> <<"a">>, version |-> <<">", "=", " ", "1", ".", "0">>]
    /\ Len(AliasesOf(1)) >= 3
    /\ AliasesOf(1)[1] = [source |-> <<"a">>, target |-> <<"b">>]
    /\ AliasesOf(1)[2] = [source |-> <<"a">>, target |-> <<"c">>]
    /\ AliasesOf(1)[3].source = ItemsOf(1)[2].name

\* C10: a trimmed clause that is empty or starts with "${" gives no item and
\* no alias, every other clause gives exactly one item: the items are as many
\* as the non-empty, non-placeholder clauses, and the aliases as many as the
\* "|" of those clauses.
Th_C10 ==
    pc = "built"
    => \A n \in 1..6 :
         FieldPresent(n)
         => LET cs == TrimmedClauses(FieldValue(n))
                kept == {i \in 1..Len(cs) : Survives(cs[i])}
            IN  /\ Len(ItemsOf(n)) = Cardinality(kept)
                /\ Len(AliasesOf(n))
                     = Cardinality({ij \in kept \X (1..Len(FieldValue(n))) :
                                       /\ ij[2] <= Len(cs[ij[1]])
                                       /\ cs[ij[1]][ij[2]] = "|"})
                /\ kept = {} => (ItemsOf(n) = <<>> /\ ~HasKey(BuiltDeps, AliasKeys[n]))

\* "${shlibs:Depends}" alone
Wit_C10 ==
    /\ pc = "built"
    /\ FieldPresent(1)
    /\ FieldValue(1) = <<"$", "{", "s", "h", "l", "i", "b", "s", ":", "D", "e", "p",
                         "e", "n", "d", "s", "}">>
    /\ ItemsOf(1) = <<>>
    /\ ~HasKey(BuiltDeps, AliasKeys[1])

-----------------------------------------------------------------------------
(* Claims about the maintainer and about one item *)

MaintainerPresent ==
    \E i \in 1..Len(current_package) : current_package[i].k = Maintainer
MaintainerValue ==
    current_package[CHOOSE i \in 1..Len(current_package) :
                        current_package[i].k = Maintainer].v

\* the position of the first c of s at or after position from (0 when none)
FirstAt(s, c, from) ==
    IF \E i \in from..Len(s) : s[i] = c
    THEN CHOOSE i \in from..Len(s) : s[i] = c /\ \A j \in from..(i - 1) : s[j] # c
    ELSE 0

\* C11: when the Maintainer value holds a "<...>" pair, name is the trimmed
\* text before the first "<" and email is exactly the text between that "<"
\* and the ">" that closes it; with no angle bracket, name is the whole value
\* and email is empty.
Cx_C11 ==
    (pc = "built" /\ MaintainerPresent)
    => LET m == MaintainerValue
           open == FirstAt(m, "<", 1)
           close == IF open = 0 THEN 0 ELSE FirstAt(m, ">", open + 1)
       IN  /\ (open > 0 /\ close > 0)
                => /\ BuiltRecord.maintainer.name = strip(SubSeq(m, 1, open - 1))
                   /\ BuiltRecord.maintainer.email = SubSeq(m, open + 1, close - 1)
           /\ (open = 0 /\ FirstAt(m, ">", 1) = 0)
                => /\ BuiltRecord.maintainer.name = m
                   /\ BuiltRecord.maintainer.email = <<>>
\* the trimmed first alternative of the j-th surviving clause of kind n, and
\* the item built from it
Primary(n, j) == strip(split(Surviving(FieldValue(n))[j], "|")[1])
ItemAt(n, j) == ItemsOf(n)[j]
HasVersion(item) == "version" \in DOMAIN item
NoParen(t) == \A i \in 1..Len(t) : t[i] \notin {"(", ")"}
\* a non-empty name: the trimmed text before the "(" at position open
NameBefore(a, open) == strip(SubSeq(a, 1, open - 1))
ValidName(t) == t # <<>> /\ NoParen(t)

\* C12: a first alternative with no parse-able name (empty, or starting with
\* a parenthesis) gives a name-only item whose name is the trimmed text of the
\* alternative; so no item built from non-empty text has an empty name.
Cx_C12 ==
    pc = "built"
    => \A n \in 1..6 :
         FieldPresent(n)
         => \A j \in 1..Len(Surviving(FieldValue(n))) :
              LET a == Primary(n, j)
              IN  /\ (a = <<>> \/ a[1] = "(")
                       => (~HasVersion(ItemAt(n, j)) /\ ItemAt(n, j).name = a)
                  /\ a # <<>> => ItemAt(n, j).name # <<>>

\* C13: a first alternative with a name followed by a constraint that is not
\* a closed, non-empty parenthesised constraint (no ")" after the "(", or
\* nothing between them) gives an item with that name and no version key.
Cx_C13 ==
    pc = "built"
    => \A n \in 1..6 :
         FieldPresent(n)
         => \A j \in 1..Len(Surviving(FieldValue(n))) :
              LET a == Primary(n, j)
                  open == FirstAt(a, "(", 1)
                  close == IF open = 0 THEN 0 ELSE FirstAt(a, ")", open + 1)
              IN  (/\ open > 1
                   /\ ValidName(NameBefore(a, open))
                   /\ (close = 0 \/ strip(SubSeq(a, open + 1, close - 1)) = <<>>))
                  => /\ ItemAt(n, j).name = NameBefore(a, open)
                     /\ ~HasVersion(ItemAt(n, j))

\* C14: for a first alternative "name (constraint)", with or without text
\* after it, the version is the text between the parentheses, unchanged; a
\* version never holds "(" or ")"; an alternative with no parenthesis has no
\* version key.
Cx_C14 ==
    pc = "built"
    => \A n \in 1..6 :
         FieldPresent(n)
         => \A j \in 1..Len(Surviving(FieldValue(n))) :
              LET a == Primary(n, j)
                  open == FirstAt(a, "(", 1)
                  close == IF open = 0 THEN 0 ELSE FirstAt(a, ")", open + 1)
              IN  /\ (/\ open > 1
                      /\ ValidName(NameBefore(a, open))
                      /\ close > 0
                      /\ strip(SubSeq(a, open + 1, close - 1)) # <<>>
                      /\ NoParen(SubSeq(a, open + 1, close - 1)))
                       => /\ HasVersion(ItemAt(n, j))
                          /\ ItemAt(n, j).version = SubSeq(a, open + 1, close - 1)
                          /\ NoParen(ItemAt(n, j).version)
                  /\ (open = 0 /\ FirstAt(a, ")", 1) = 0) => ~HasVersion(ItemAt(n, j))

-----------------------------------------------------------------------------
(* Further claims about the reader *)

RecordFields == {"name", "version", "dependencies", "description", "maintainer"}

\* a name -> record mapping: one entry per key, every value a whole record
IsMapping(pkgs) ==
    /\ \A i, j \in 1..Len(pkgs) : pkgs[i].k = pkgs[j].k => i = j
    /\ \A i \in 1..Len(pkgs) : DOMAIN pkgs[i].v = RecordFields

HasColon(raw) == \E i \in 1..Len(raw) : raw[i] = ":"

\* C15: no line makes the reader or the builder raise, and the reader always
\* returns a mapping; a non-blank line with no leading whitespace and no ":"
\* leaves the accumulator (and so its last key) and the mapping unchanged.
Th_C15 ==
    /\ [](pc # "error" /\ (pc = "ret" => IsMapping(packages)))
    /\ [][(ReadStep /\ ~IsBlank(line') /\ line'[1] \notin Whitespace /\ ~HasColon(line'))
          => /\ current_package' = current_package
             /\ packages' = packages
             /\ pc' = "read"]_vars

\* a line without ":" was just ignored in a stanza whose Depends holds a stray
\* comma, pipe and parenthesis
Wit_C15 ==
    /\ pc = "read"
    /\ nread = 3
    /\ line = <<"g", "a", "r", "b", "a", "g", "e", "\n">>
    /\ Len(current_package) = 2
    /\ current_package[1].k = Package
    /\ current_package[2] = [k |-> Depends, v |-> <<",", "|", " ", "(">>]
\* C16: a non-blank line that begins with whitespace adds no key to the
\* accumulator and changes no value but that of the most recently inserted key.
Cx_C16 ==
    [][(ReadStep /\ line'[1] \in Whitespace /\ ~IsBlank(line'))
       => /\ Len(current_package') = Len(current_package)
          /\ \A i \in 1..Len(current_package) :
               /\ current_package'[i].k = current_package[i].k
               /\ i < Len(current_package)
                    => current_package'[i].v = current_package[i].v]_vars

PackageName(cp) == cp[CHOOSE i \in 1..Len(cp) : cp[i].k = Package].v

Names(pkgs) == {pkgs[i].k : i \in 1..Len(pkgs)}

\* C17: the mapping holds one entry per package name; a stanza whose name is
\* already in the mapping replaces that entry's record and adds none, a
\* stanza with a new name adds one entry; no other step changes the mapping;
\* the reader stops at a stanza iff the cap is given and the distinct names
\* are then at least the cap.
Th_C17 ==
    /\ [](Cardinality(Names(packages)) = Len(packages))
    /\ [][ReadStep
          => IF IsBlank(line') /\ HoldsPackage(current_package)
             THEN LET name == PackageName(current_package)
                  IN  /\ Names(packages') = Names(packages) \cup {name}
                      /\ \A i \in 1..Len(packages') :
                           IF packages'[i].k = name
                           THEN packages'[i].v = parse_package_data(current_package)
                           ELSE i <= Len(packages) /\ packages'[i] = packages[i]
                      /\ pc' = "ret"
                           <=> (head # 0 /\ Cardinality(Names(packages')) >= head)
             ELSE packages' = packages /\ pc' = "read"]_vars

\* two stanzas named p were read at cap 2: the mapping holds one record, the
\* one of the second stanza (without Depends), and the reader goes on
Wit_C17 ==
    /\ pc = "read"
    /\ head = 2
    /\ nread = 5
    /\ emitted = 2
    /\ IsBlank(line)
    /\ Len(packages) = 1
    /\ packages[1].k = <<"p">>
    /\ packages[1].v.dependencies = <<>>

=============================================================================
